---- MODULE Spec2Model ----
(***************************************************************************)
(* Event-log checkpoint lambda (lambda/event_log_checkpoint): the          *)
(* VisitEvent validator, the Checkpoint value with its merge, the          *)
(* CheckpointStore bound to one S3 object, the S3EventRetriever and the    *)
(* lambda_handler that wires them together.                                *)
(*                                                                         *)
(* Timestamps are UTC instants, modelled as the integers 1..MaxTs.  A      *)
(* polars DataFrame is a record [rows, schema]: the rows in order and the  *)
(* dtype polars gave each column whose dtype depends on how the frame was  *)
(* built (pipeline_adcid, and the Optional[str] column module; the columns *)
(* visit_number and packet are Optional[str] too and behave as module      *)
(* does).  A row carries the columns the operations read (timestamp,       *)
(* datatype, module) and action as payload.                                *)
(***************************************************************************)
EXTENDS Integers, Sequences, FiniteSets, TLC

\* ---------------------------------------------------------------- bounds
MaxTs == 2        \* timestamps range over 1..MaxTs
MaxBatch == 2     \* longest list of events handed to one call
MaxRows == 3      \* add_events is not called beyond this many rows
MaxKeys == 3      \* objects S3 returns in one list_objects_v2 page

\* --------------------------------------------------------------- helpers
NoneStr == "None"                 \* Python None in a str-typed position
NoneTs == 0                       \* Python None in a datetime-typed position

Range(s) == {s[i] : i \in DOMAIN s}
CountIn(s, x) == Cardinality({i \in DOMAIN s : s[i] = x})
SameBag(s, t) == \A x \in Range(s) \cup Range(t) : CountIn(s, x) = CountIn(t, x)
IsSorted(rows) ==
    \A i \in 1..(Len(rows) - 1) : rows[i].timestamp <= rows[i + 1].timestamp
SeqsUpTo(S, n) == UNION {[1..k -> S] : k \in 0..n}

\* ------------------------------------------------------------ VisitEvent
VisitEventType == {"submit", "delete", "not-pass-qc", "pass-qc"}
DatatypeNameType ==
    {"apoe", "biomarker", "dicom", "enrollment", "form",
     "genetic-availability", "gwas", "imputation", "scan-analysis"}
ModuleName == {"UDS", "FTLD", "LBD", "MDS"}

\* The model validator that runs after the field checks.
\* A validator that only requires a module of form events.
validate_module_forms_only(e) ==
    ~(e.datatype = "form" /\ e.module = NoneStr)

validate_module(e) ==
    /\ ~(e.datatype # "form" /\ e.module # NoneStr)
    /\ ~(e.datatype = "form" /\ e.module = NoneStr)

\* VisitEvent.model_validate on a parsed JSON object: TRUE when a VisitEvent
\* is returned, FALSE when pydantic raises ValidationError.
model_validate(d) ==
    /\ d.action \in VisitEventType
    /\ d.datatype \in DatatypeNameType
    /\ d.module \in ModuleName \cup {NoneStr}
    /\ d.timestamp \in 1..MaxTs
    /\ validate_module(d)

\* JSON objects that event files hold in the model.
RawEvents ==
    [action : {"submit", "invalid-action"}, datatype : {"dicom", "form"},
     module : {NoneStr, "UDS"}, timestamp : 1..MaxTs]
ValidEvents == {d \in RawEvents : model_validate(d)}
EventLists == SeqsUpTo(ValidEvents, MaxBatch)

\* ------------------------------------------- VisitEvent, field by field
\* A string is the sequence of its characters.  An input to validation is a
\* record of the values given, the set of fields left out and the set of
\* unknown keys given in addition.
Whitespace == {" ", "\t"}
Digits == {"0", "1", "2", "3", "4", "5", "6", "7", "8", "9"}
PtidMaxLength == 10
PtidPatternMax == 10

\* A strip that leaves the string as it is.
strip_nothing(s) == s

\* str_strip_whitespace: leading and trailing whitespace is removed before
\* the length and pattern constraints of a str field are checked.
RECURSIVE strip(_)
strip(s) ==
    IF s = <<>> THEN s
    ELSE IF Head(s) \in Whitespace THEN strip(Tail(s))
    ELSE IF s[Len(s)] \in Whitespace THEN strip(SubSeq(s, 1, Len(s) - 1))
    ELSE s

\* PTID_PATTERN ^[!-~]{1,10}$: one to ten printable characters, none of
\* them whitespace.
PtidPatternMatches(s) ==
    /\ Len(s) \in 1..PtidPatternMax
    /\ \A i \in DOMAIN s : s[i] \notin Whitespace

\* ^\d{4}-\d{2}-\d{2}$
VisitDatePatternMatches(s) ==
    /\ Len(s) = 10
    /\ \A i \in DOMAIN s : IF i \in {5, 8} THEN s[i] = "-" ELSE s[i] \in Digits

RequiredFields ==
    {"action", "pipeline_adcid", "project_label", "center_label", "gear_name",
     "ptid", "visit_date", "datatype", "timestamp"}
KnownFields == RequiredFields \cup {"study", "module"}

\* The fields pydantic reports an error for: a required field left out, an
\* unknown key (extra="forbid"), or a value its field constraint refuses.
\* study, project_label, center_label and gear_name are plain str fields.
FieldErrors(raw) ==
    (RequiredFields \cap raw.missing)
    \cup raw.extra
    \cup {f \in KnownFields \ raw.missing :
            \/ f = "action" /\ raw.action \notin VisitEventType
            \/ f = "datatype" /\ raw.datatype \notin DatatypeNameType
            \/ f = "module" /\ raw.module \notin ModuleName \cup {NoneStr}
            \/ f = "ptid" /\ ~(/\ Len(strip(raw.ptid)) <= PtidMaxLength
                                /\ PtidPatternMatches(strip(raw.ptid)))
            \/ f = "visit_date" /\ ~VisitDatePatternMatches(strip(raw.visit_date))}

\* The VisitEvent built from an input whose fields all passed: str fields
\* stripped, fields left out at their defaults.
Constructed(raw) ==
    [action |-> raw.action,
     study |-> IF "study" \in raw.missing THEN <<"a", "d", "r", "c">>
               ELSE strip(raw.study),
     project_label |-> strip(raw.project_label),
     center_label |-> strip(raw.center_label),
     gear_name |-> strip(raw.gear_name),
     ptid |-> strip(raw.ptid),
     visit_date |-> strip(raw.visit_date),
     datatype |-> raw.datatype,
     module |-> IF "module" \in raw.missing THEN NoneStr ELSE raw.module,
     timestamp |-> raw.timestamp]

\* VisitEvent(**raw): the fields are validated, and when all pass the model
\* validator runs; its error is reported without a field.
VisitEvent(raw) ==
    LET errs == FieldErrors(raw)
    IN IF errs # {} THEN [ok |-> FALSE, errors |-> errs, event |-> Constructed(raw)]
       ELSE IF ~validate_module(Constructed(raw))
       THEN [ok |-> FALSE, errors |-> {"validate_module"},
             event |-> Constructed(raw)]
       ELSE [ok |-> TRUE, errors |-> {}, event |-> Constructed(raw)]

\* The inputs of the model: a complete valid event, changed in one
\* enumerated field, in one str field and in what is left out or added.
BaseInputs ==
    {[action |-> "submit", study |-> <<"a", "d", "r", "c">>,
      project_label |-> <<"p">>, center_label |-> <<"c">>,
      gear_name |-> <<"g">>, ptid |-> <<"A", "B", "C", "1", "2", "3">>,
      visit_date |-> <<"2", "0", "2", "4", "-", "0", "1", "-", "1", "5">>,
      datatype |-> d, module |-> m, timestamp |-> 1,
      missing |-> {}, extra |-> {}] :
        d \in {"dicom", "form"}, m \in {NoneStr, "UDS"}}
EnumChanges ==
    {[field |-> "action", value |-> "submit"],
     [field |-> "action", value |-> "approve"],
     [field |-> "datatype", value |-> "image"],
     [field |-> "module", value |-> "XYZ"]}
PtidInputs ==
    {<<>>, <<" ", " ">>, <<"A", " ", "B">>, <<"A", "\t", "B">>,
     <<" ", "A", "B", " ">>,
     [i \in 1..(PtidMaxLength + 1) |-> "X"],
     [i \in 1..(PtidMaxLength + 1) |-> IF i > PtidMaxLength THEN " " ELSE "X"]}
VisitDateInputs ==
    {<<"2", "0", "2", "4", "-", "1", "-", "1", "5">>,
     <<"2", "0", "2", "4", "/", "0", "1", "/", "1", "5">>,
     <<" ", "2", "0", "2", "4", "-", "0", "1", "-", "1", "5", " ">>,
     <<"n", "o", "t", "-", "a", "-", "d", "a", "t", "e">>}
StrChanges ==
    {[field |-> "ptid", value |-> v] : v \in PtidInputs}
    \cup {[field |-> "visit_date", value |-> v] : v \in VisitDateInputs}
    \cup [field : {"study", "project_label", "center_label", "gear_name"},
          value : {<<"x">>, <<>>, <<" ">>}]
PresenceChanges ==
    {[missing |-> {}, extra |-> {}], [missing |-> {}, extra |-> {"comment"}]}
    \cup {[missing |-> {f}, extra |-> {}] : f \in KnownFields}
RawInputs ==
    {[[[b EXCEPT ![e.field] = e.value] EXCEPT ![c.field] = c.value]
         EXCEPT !.missing = p.missing, !.extra = p.extra] :
        b \in BaseInputs, e \in EnumChanges, c \in StrChanges,
        p \in PresenceChanges}

\* ------------------------------------------------------------ DataFrames
create_checkpoint_dataframe ==
    [rows |-> <<>>, schema |-> [pipeline_adcid |-> "Int32", module |-> "Utf8"]]

\* DataFrame(list of dicts): polars infers the dtypes from the values, Int64
\* for Python ints and Null for a column that holds only None.
InferSchema(events) ==
    [pipeline_adcid |-> "Int64",
     module |-> IF \A i \in DOMAIN events : events[i].module = NoneStr
                THEN "Null" ELSE "Utf8"]

events_to_dataframe(events) ==
    IF events = <<>> THEN create_checkpoint_dataframe
    ELSE [rows |-> events, schema |-> InferSchema(events)]

\* polars.concat (how="vertical") appends the second frame to the first,
\* column by column: equal dtypes append, a Null column is cast to the dtype
\* of the column it is appended to, anything else is a SchemaError.
CanAppend(left, right) == left = right \/ right = "Null"
ConcatOk(a, b) ==
    /\ CanAppend(a.schema.pipeline_adcid, b.schema.pipeline_adcid)
    /\ CanAppend(a.schema.module, b.schema.module)
concat(a, b) == [rows |-> a.rows \o b.rows, schema |-> a.schema]

\* DataFrame.sort("timestamp") with the default maintain_order=False: any
\* arrangement of the rows that is non-decreasing in timestamp.
MinTs(rows, idx) ==
    CHOOSE t \in {rows[i].timestamp : i \in idx} :
        \A i \in idx : t <= rows[i].timestamp
RECURSIVE SortFrom(_, _)
SortFrom(rows, idx) ==
    IF idx = {} THEN {<<>>}
    ELSE LET first == {i \in idx : rows[i].timestamp = MinTs(rows, idx)}
         IN UNION {{<<rows[i]>> \o t : t \in SortFrom(rows, idx \ {i})} : i \in first}
SortOutcomes(rows) == SortFrom(rows, DOMAIN rows)

\* ------------------------------------------------------------ Checkpoint
Checkpoint_empty == create_checkpoint_dataframe
from_events(events) == events_to_dataframe(events)
get_event_count(df) == Len(df.rows)
is_empty(df) == Len(df.rows) = 0
\* The timestamp of the last row in place of the maximum.
get_last_processed_timestamp_of_last_row(df) ==
    IF is_empty(df) THEN NoneTs ELSE df.rows[Len(df.rows)].timestamp

get_last_processed_timestamp(df) ==
    IF is_empty(df) THEN NoneTs
    ELSE CHOOSE t \in {df.rows[i].timestamp : i \in DOMAIN df.rows} :
             \A i \in DOMAIN df.rows : df.rows[i].timestamp <= t

\* An add_events that hands back the receiver itself when there is nothing
\* to add.
add_events_returning_self(self, new_events) ==
    IF new_events = <<>>
    THEN {[raised |-> "none", df |-> self, receiver |-> self, fresh |-> FALSE]}
    ELSE LET new_events_df == events_to_dataframe(new_events)
         IN IF ~is_empty(self) /\ ~ConcatOk(self, new_events_df)
            THEN {[raised |-> "SchemaError", df |-> self, receiver |-> self,
                   fresh |-> FALSE]}
            ELSE LET merged_df == IF is_empty(self) THEN new_events_df
                                  ELSE concat(self, new_events_df)
                 IN {[raised |-> "none",
                      df |-> [rows |-> s, schema |-> merged_df.schema],
                      receiver |-> self, fresh |-> TRUE] :
                        s \in SortOutcomes(merged_df.rows)}

\* add_events: the set of outcomes of self.add_events(new_events): the
\* exception raised or the DataFrame df of the Checkpoint returned, the
\* receiver's DataFrame after the call, and whether what is returned is a
\* new instance (clone, concat and sort all build new frames, and
\* Checkpoint(...) a new object; nothing assigns to self._events_df).
add_events(self, new_events) ==
    IF new_events = <<>>
    THEN {[raised |-> "none", df |-> self, receiver |-> self, fresh |-> TRUE]}
    ELSE LET new_events_df == events_to_dataframe(new_events)
         IN IF ~is_empty(self) /\ ~ConcatOk(self, new_events_df)
            THEN {[raised |-> "SchemaError", df |-> self, receiver |-> self,
                   fresh |-> FALSE]}
            ELSE LET merged_df == IF is_empty(self) THEN new_events_df
                                  ELSE concat(self, new_events_df)
                 IN {[raised |-> "none",
                      df |-> [rows |-> s, schema |-> merged_df.schema],
                      receiver |-> self, fresh |-> TRUE] :
                        s \in SortOutcomes(merged_df.rows)}

\* ------------------------------------------------------------- S3 source
\* The object keys the source bucket can hold, in the order S3 lists them
\* (ascending UTF-8 binary order of the key).
SourceKeys ==
    << [name |-> "logs/README.txt", dir |-> "logs/", action |-> "", ext |-> ".txt"],
       [name |-> "logs/log-pass-qc-20240115-101000-42-proj-P1-01.json",
        dir |-> "logs/", action |-> "pass-qc", ext |-> ".json"],
       [name |-> "logs/log-submit-20240115-095000-42-proj-P1-01.json",
        dir |-> "logs/", action |-> "submit", ext |-> ".json"],
       [name |-> "other/log-submit-20240115-100000-42-proj-P2-01.json",
        dir |-> "other/", action |-> "submit", ext |-> ".json"] >>
KeyIds == DOMAIN SourceKeys
Prefixes == {"", "logs/"}

\* What an object's bytes are: a JSON object, text that is not JSON, or bytes
\* that are not UTF-8.
JsonBody(d) == [kind |-> "json", data |-> d]
TextBody == [kind |-> "text", data |-> <<>>]
BytesBody == [kind |-> "bytes", data |-> <<>>]
FileEvents ==
    {d \in RawEvents : d.datatype = "dicom" /\ d.module = NoneStr
                        /\ (d.action = "invalid-action" => d.timestamp = 1)}
Bodies == {JsonBody(d) : d \in FileEvents} \cup {TextBody, BytesBody}
BodiesOf(k) ==
    IF SourceKeys[k].ext = ".txt" THEN {TextBody}
    ELSE IF SourceKeys[k].dir = "other/"
         THEN {JsonBody(CHOOSE d \in FileEvents :
                   d.action = "submit" /\ d.timestamp = 1)}
         ELSE Bodies

StartsWith(k, prefix) == prefix = "" \/ SourceKeys[k].dir = prefix

\* DEFAULT_PATTERN.match(key): ...log-<action>-<date>-<time>-... .json with
\* one of the four actions.
FilePatternMatches(k) ==
    /\ SourceKeys[k].action \in {"submit", "pass-qc", "not-pass-qc", "delete"}
    /\ SourceKeys[k].ext = ".json"

RECURSIVE Ascending(_)
Ascending(S) ==
    IF S = {} THEN <<>>
    ELSE LET m == CHOOSE x \in S : \A y \in S : x <= y
         IN <<m>> \o Ascending(S \ {m})
Take(s, n) == SubSeq(s, 1, IF Len(s) < n THEN Len(s) ELSE n)

\* s3_client.list_objects_v2(Bucket, Prefix): one page of at most MaxKeys
\* keys, with IsTruncated set when more keys remain.
list_objects_v2(bkt, prefix) ==
    LET under == Ascending({k \in DOMAIN bkt : StartsWith(k, prefix)})
    IN [Contents |-> Take(under, MaxKeys), IsTruncated |-> Len(under) > MaxKeys]

\* ---------------------------------------------------------- S3EventRetriever
Faults == {"none", "ClientError", "EndpointConnectionError"}

list_event_files(bkt, prefix, listFault) ==
    IF listFault # "none" THEN [raised |-> listFault, files |-> <<>>]
    ELSE [raised |-> "none",
          files |-> SelectSeq(list_objects_v2(bkt, prefix).Contents,
                              FilePatternMatches)]

\* retrieve_event: get_object, json.loads on the bytes, model_validate.
retrieve_event(bkt, key, fault) ==
    IF fault # "none" THEN [raised |-> fault, event |-> <<>>]
    ELSE IF bkt[key].kind = "bytes"
         THEN [raised |-> "UnicodeDecodeError", event |-> <<>>]
    ELSE IF bkt[key].kind = "text"
         THEN [raised |-> "JSONDecodeError", event |-> <<>>]
    ELSE IF ~model_validate(bkt[key].data)
         THEN [raised |-> "ValidationError", event |-> <<>>]
    ELSE [raised |-> "none", event |-> bkt[key].data]

\* The comparison with >= in place of >.
should_process_event_inclusive(since_timestamp, event) ==
    IF since_timestamp = NoneTs THEN TRUE
    ELSE event.timestamp >= since_timestamp

should_process_event(since_timestamp, event) ==
    IF since_timestamp = NoneTs THEN TRUE
    ELSE event.timestamp > since_timestamp

\* The exceptions the loop of retrieve_and_validate_events catches.
CaughtPerFile == {"ClientError", "JSONDecodeError", "ValidationError"}

\* A fetch fault: the key whose get_object fails (0: none) and how.
FetchFaults ==
    {[key |-> 0, kind |-> "none"]}
    \cup [key : KeyIds, kind : Faults \ {"none"}]
FaultAt(fetchFault, key) ==
    IF fetchFault.key = key THEN fetchFault.kind ELSE "none"

\* The for loop over event_files, from position i on.
RECURSIVE ProcessFiles(_, _, _, _, _, _)
ProcessFiles(bkt, since, fetchFault, files, i, acc) ==
    IF i > Len(files) THEN acc
    ELSE LET key == files[i]
             r == retrieve_event(bkt, key, FaultAt(fetchFault, key))
             seen == Append(acc.attempted, key)
         IN IF r.raised = "none"
            THEN ProcessFiles(bkt, since, fetchFault, files, i + 1,
                     [acc EXCEPT !.attempted = seen,
                                 !.valid_events =
                                     IF should_process_event(since, r.event)
                                     THEN Append(@, r.event) ELSE @])
            ELSE IF r.raised \in CaughtPerFile
            THEN ProcessFiles(bkt, since, fetchFault, files, i + 1,
                     [acc EXCEPT !.attempted = seen,
                                 !.validation_errors =
                                     Append(@, [source_key |-> key,
                                                errors |-> r.raised])])
            ELSE [raised |-> r.raised, valid_events |-> <<>>,
                  validation_errors |-> <<>>, attempted |-> seen]

retrieve_and_validate_events(bkt, prefix, since, listFault, fetchFault) ==
    LET listed == list_event_files(bkt, prefix, listFault)
        start == [raised |-> "none", valid_events |-> <<>>,
                  validation_errors |-> <<>>, attempted |-> <<>>]
    IN IF listed.raised # "none"
       THEN [start EXCEPT !.raised = listed.raised]
       ELSE ProcessFiles(bkt, since, fetchFault, listed.files, 1, start)

\* --------------------------------------------------------- CheckpointStore
\* The object at the bound bucket/key: none, a parquet file written from a
\* DataFrame, or bytes that are not a parquet file.
NoObject == [kind |-> "absent"]
Parquet(df) == [kind |-> "parquet", df |-> df]
Corrupt == [kind |-> "corrupt"]

\* The location a store is bound to, and the URI built from it.
CheckpointBucket == "ckpt"
CheckpointKey == "events.parquet"
s3_uri(bkt, key) == "s3://" \o bkt \o "/" \o key

\* How a head_object call can fail for a reason other than a missing
\* object: S3 refuses it, or S3 is not reached.
HeadFaults == {"none", "AccessDenied", "EndpointConnectionError"}

\* s3_client.head_object(Bucket, Key).  HEAD answers carry no body, so the
\* error code botocore puts in the ClientError is the HTTP status: "404"
\* for a missing key, "403" for a refused one.  A connection failure is an
\* EndpointConnectionError, which is not a ClientError.
head_object(obj, fault) ==
    IF fault = "EndpointConnectionError"
    THEN [raised |-> "EndpointConnectionError", code |-> ""]
    ELSE IF fault = "AccessDenied" THEN [raised |-> "ClientError", code |-> "403"]
    ELSE IF obj.kind = "absent" THEN [raised |-> "ClientError", code |-> "404"]
    ELSE [raised |-> "none", code |-> ""]

\* exists(): the outcome [raised, result].
exists(obj, fault) ==
    LET h == head_object(obj, fault)
    IN IF h.raised = "none" THEN [raised |-> "none", result |-> TRUE]
       ELSE IF h.raised = "ClientError"
       THEN IF h.code = "NoSuchKey" THEN [raised |-> "none", result |-> FALSE]
            ELSE [raised |-> "CheckpointError", result |-> FALSE]
       ELSE [raised |-> h.raised, result |-> FALSE]

\* What polars raises when its own S3 client fails to reach or is refused
\* the object: a ComputeError or an OSError, depending on the release.  It
\* never raises a botocore exception.
PolarsFaults == {"none", "ComputeError", "OSError"}

\* polars.read_parquet("s3://bucket/key").
read_parquet(obj, fault) ==
    IF fault # "none" THEN [raised |-> fault, df |-> Checkpoint_empty]
    ELSE IF obj.kind = "absent"
    THEN [raised |-> "FileNotFoundError", df |-> Checkpoint_empty]
    ELSE IF obj.kind = "corrupt"
    THEN [raised |-> "ComputeError", df |-> Checkpoint_empty]
    ELSE [raised |-> "none", df |-> obj.df]

\* The columns of a row of the model.
Columns == {"action", "datatype", "module", "timestamp"}

\* A parquet writer that keeps timestamps at a coarser unit than the one
\* the frame has.
to_parquet_coarse_timestamps(df) ==
    [schema |-> df.schema, num_rows |-> Len(df.rows),
     columns |-> [c \in Columns |->
                     [i \in DOMAIN df.rows |->
                         IF c = "timestamp" THEN (df.rows[i][c] \div 2) * 2
                         ELSE df.rows[i][c]]]]

\* The parquet file of a frame: its schema, and column by column the values
\* of the rows (None as a null).
to_parquet(df) ==
    [schema |-> df.schema, num_rows |-> Len(df.rows),
     columns |-> [c \in Columns |-> [i \in DOMAIN df.rows |-> df.rows[i][c]]]]

\* The frame read back from a parquet file.
from_parquet(file) ==
    [rows |-> [i \in 1..file.num_rows |->
                  [c \in Columns |-> file.columns[c][i]]],
     schema |-> file.schema]

\* DataFrame.write_parquet("s3://bucket/key"): the object is replaced when
\* the upload completes and is left as it was when it fails.  A parquet
\* object is described by the frame its file decodes to.
write_parquet(obj, df, fault) ==
    IF fault # "none" THEN [raised |-> fault, obj |-> obj]
    ELSE [raised |-> "none", obj |-> Parquet(from_parquet(to_parquet(df)))]

\* The exceptions load() and save() turn into CheckpointError.
WrappedByStore == {"ComputeError", "PolarsError", "ClientError"}

\* load(): the outcome [raised, found, checkpoint, obj]; found is FALSE
\* when it returns None.
load(obj, fault) ==
    LET r == read_parquet(obj, fault)
        none == [raised |-> "none", found |-> FALSE,
                 checkpoint |-> Checkpoint_empty, obj |-> obj]
    IN IF r.raised = "none"
       THEN [none EXCEPT !.found = TRUE, !.checkpoint = r.df]
       ELSE IF r.raised = "FileNotFoundError" THEN none
       ELSE IF r.raised \in WrappedByStore
       THEN [none EXCEPT !.raised = "CheckpointError"]
       ELSE [none EXCEPT !.raised = r.raised]

\* A save that reports success whether or not the write went through.
save_reporting_success(obj, df, fault) ==
    [raised |-> "none", obj |-> write_parquet(obj, df, fault).obj,
     result |-> s3_uri(CheckpointBucket, CheckpointKey)]

\* save(checkpoint): the outcome [raised, obj, result], result being the
\* URI it returns.
save(obj, df, fault) ==
    LET w == write_parquet(obj, df, fault)
    IN IF w.raised = "none"
       THEN [raised |-> "none", obj |-> w.obj,
             result |-> s3_uri(CheckpointBucket, CheckpointKey)]
       ELSE IF w.raised \in WrappedByStore
       THEN [raised |-> "CheckpointError", obj |-> w.obj, result |-> NoneStr]
       ELSE [raised |-> w.raised, obj |-> w.obj, result |-> NoneStr]

\* ----------------------------------------------------------- lambda_handler
\* A call to storage: the operation and, for get_object, the key id.
Call(op, key) == [op |-> op, key |-> key]

\* A get_checkpoint that loads the checkpoint and writes an empty one when
\* there is none.
get_checkpoint_creating(obj, fault) ==
    LET l == load(obj, fault)
        r == [raised |-> l.raised, found |-> l.found,
              checkpoint |-> l.checkpoint, obj |-> obj]
    IN IF l.raised = "none" /\ ~l.found
       THEN [r EXCEPT !.obj = Parquet(Checkpoint_empty)]
            @@ [calls |-> <<Call("load", 0), Call("save", 0)>>]
       ELSE r @@ [calls |-> <<Call("load", 0)>>]

\* A get_checkpoint that never reads the store and hands back an empty
\* Checkpoint.
get_checkpoint_fresh(obj, fault) ==
    [raised |-> "none", found |-> FALSE, checkpoint |-> Checkpoint_empty,
     obj |-> obj, calls |-> <<>>]

\* checkpoint_store.get_checkpoint(): CheckpointStore defines __init__,
\* exists, load and save only, so the attribute lookup raises
\* AttributeError before anything is read.
get_checkpoint(obj, fault) ==
    [raised |-> "AttributeError", found |-> FALSE,
     checkpoint |-> Checkpoint_empty, obj |-> obj, calls |-> <<>>]

Response200 == [statusCode |-> 200]
\* An error response that leaves the message out.
ErrorResponse_without_message(code, error, message) ==
    [statusCode |-> code, error |-> error]

ErrorResponse(code, error, message) ==
    [statusCode |-> code, error |-> error, message |-> message]
\* An outcome of _update_checkpoint: what it returned or raised, the
\* checkpoint object it leaves and the storage calls it made, in order.
Returned(response, obj, calls) ==
    [raised |-> "none", response |-> response, obj |-> obj, calls |-> calls]
Propagated(exception, obj, calls) ==
    [raised |-> exception, response |-> <<>>, obj |-> obj, calls |-> calls]

\* The storage calls of one retrieve_and_validate_events: the listing, then
\* one get_object per file it reached.
RetrieverCalls(r) ==
    <<Call("list_objects_v2", 0)>>
    \o [i \in DOMAIN r.attempted |-> Call("get_object", r.attempted[i])]

\* The outcome of the save branch, for one merged checkpoint.
SaveUpdated(obj, updated_checkpoint, fault, calls) ==
    IF is_empty(updated_checkpoint) THEN Returned(Response200, obj, calls)
    ELSE LET s == save(obj, updated_checkpoint, fault)
             after == Append(calls, Call("save", 0))
         IN IF s.raised = "CheckpointError"
            THEN Returned(ErrorResponse(500, "CheckpointError", "Checkpoint error"),
                          s.obj, after)
            ELSE IF s.raised = "ClientError"
            THEN Returned(ErrorResponse(500, "InternalServerError", "S3 error"),
                          s.obj, after)
            ELSE IF s.raised # "none" THEN Propagated(s.raised, s.obj, after)
            ELSE Returned(Response200, s.obj, after)

\* An _update_checkpoint that loads the checkpoint and merges every valid
\* event the source holds, whatever the checkpoint's latest timestamp is.
_update_checkpoint_without_cutoff(obj, bkt, prefix, f) ==
    LET got == get_checkpoint_creating(obj, f.load)
        r == retrieve_and_validate_events(bkt, prefix, NoneTs, f.list, f.fetch)
        calls == got.calls \o RetrieverCalls(r)
    IN IF got.raised # "none" THEN {Propagated(got.raised, got.obj, got.calls)}
       ELSE IF r.raised # "none" THEN {Propagated(r.raised, got.obj, calls)}
       ELSE IF r.valid_events = <<>>
       THEN {Returned(Response200, got.obj, calls)}
       ELSE {IF a.raised # "none"
             THEN Propagated(a.raised, got.obj, calls)
             ELSE SaveUpdated(got.obj, a.df, f.save, calls) :
                a \in add_events(got.checkpoint, r.valid_events)}

\* _update_checkpoint: the set of its outcomes [raised, response, obj], obj
\* being the checkpoint object it leaves in the store.  f holds the faults
\* of the storage calls it makes.
_update_checkpoint(obj, bkt, prefix, f) ==
    LET got == get_checkpoint(obj, f.load)
    IN IF got.raised = "CheckpointError"
       THEN {Returned(ErrorResponse(500, "CheckpointError", "Checkpoint error"),
                      got.obj, got.calls)}
       ELSE IF got.raised = "ClientError"
       THEN {Returned(ErrorResponse(500, "InternalServerError", "S3 error"),
                      got.obj, got.calls)}
       ELSE IF got.raised # "none"
       THEN {Propagated(got.raised, got.obj, got.calls)}
       ELSE LET since_timestamp == get_last_processed_timestamp(got.checkpoint)
                r == retrieve_and_validate_events(
                         bkt, prefix, since_timestamp, f.list, f.fetch)
                calls == got.calls \o RetrieverCalls(r)
            IN IF r.raised = "ClientError"
               THEN {Returned(ErrorResponse(500, "InternalServerError", "S3 error"),
                              got.obj, calls)}
               ELSE IF r.raised # "none"
               THEN {Propagated(r.raised, got.obj, calls)}
               ELSE IF r.valid_events = <<>>
               THEN {Returned(Response200, got.obj, calls)}
               ELSE {IF a.raised # "none"
                     THEN Propagated(a.raised, got.obj, calls)
                     ELSE SaveUpdated(got.obj, a.df, f.save, calls) :
                        a \in add_events(got.checkpoint, r.valid_events)}

\* A parameter check that refuses a missing parameter and lets an empty
\* one through.
Falsy_missing_only(x) == x = NoneStr

\* `not x` for an event parameter: missing (None) or empty.
Falsy(x) == x \in {NoneStr, ""}

\* lambda_handler: the set of its outcomes [response, obj, calls].
lambda_handler(event, obj, bkt, f) ==
    IF Falsy(event.checkpoint_bucket) \/ Falsy(event.checkpoint_key)
    THEN {[response |-> ErrorResponse(400, "ValidationError",
                            "Missing required parameters"),
           obj |-> obj, calls |-> <<>>]}
    ELSE IF Falsy(event.source_bucket)
    THEN {[response |-> ErrorResponse(400, "ValidationError",
                            "Missing required parameter"),
           obj |-> obj, calls |-> <<>>]}
    ELSE {IF u.raised # "none"
          THEN [response |-> ErrorResponse(500, "InternalServerError",
                                 "Lambda execution failed"),
                obj |-> u.obj, calls |-> u.calls]
          ELSE [response |-> u.response, obj |-> u.obj, calls |-> u.calls] :
             u \in _update_checkpoint(obj, bkt, event.prefix, f)}

\* The invocations and the storage faults of the model.
CompleteEvents ==
    [source_bucket : {"events"}, checkpoint_bucket : {CheckpointBucket},
     checkpoint_key : {CheckpointKey}, prefix : Prefixes]
HandlerEvents ==
    CompleteEvents
    \cup [source_bucket : {NoneStr}, checkpoint_bucket : {CheckpointBucket},
          checkpoint_key : {CheckpointKey}, prefix : {""}]
    \cup [source_bucket : {"events"}, checkpoint_bucket : {NoneStr},
          checkpoint_key : {CheckpointKey}, prefix : {""}]
    \cup [source_bucket : {"events"}, checkpoint_bucket : {CheckpointBucket},
          checkpoint_key : {""}, prefix : {""}]
NoFaults ==
    [load |-> "none", list |-> "none", fetch |-> [key |-> 0, kind |-> "none"],
     save |-> "none"]
HandlerFaults ==
    {NoFaults,
     [NoFaults EXCEPT !.load = "ComputeError"],
     [NoFaults EXCEPT !.list = "ClientError"],
     [NoFaults EXCEPT !.fetch = [key |-> 2, kind |-> "ClientError"]],
     [NoFaults EXCEPT !.save = "OSError"]}
\* What the invocations so far made of the source files: count[k] is the
\* number of rows file k contributed to the stored checkpoint, late holds
\* the files that appeared when the stored checkpoint's latest timestamp was
\* already equal to or later than their event's.
NoHistory == [count |-> [k \in KeyIds |-> 0], late |-> {}]

\* The rows of the frame at obj.
StoredRows(obj) == IF obj.kind = "parquet" THEN obj.df.rows ELSE <<>>

\* The files whose event an invocation added to the stored checkpoint:
\* those it fetched and validated, and whose event has more rows in the
\* object it left than in the object it found.
Contributed(before, after, calls, f, bkt) ==
    {k \in DOMAIN bkt :
        /\ \E i \in DOMAIN calls : calls[i] = Call("get_object", k)
        /\ retrieve_event(bkt, k, FaultAt(f.fetch, k)).raised = "none"
        /\ CountIn(StoredRows(after), bkt[k].data)
               > CountIn(StoredRows(before), bkt[k].data)}

\* A file that appears when the stored checkpoint already holds an event
\* as late as its own.
ArrivesLate(obj, body) ==
    /\ body.kind = "json"
    /\ model_validate(body.data)
    /\ ~is_empty([rows |-> StoredRows(obj)])
    /\ body.data.timestamp
           <= get_last_processed_timestamp([rows |-> StoredRows(obj)])

\* Two invocations of the function on the same checkpoint location.
Workers == {1, 2}
NoneRunning ==
    [pc |-> [w \in Workers |-> "idle"],
     event |-> [w \in Workers |-> <<>>],
     response |-> [w \in Workers |-> <<>>],
     found |-> NoObject, overlapped |-> FALSE, order |-> <<>>]

\* Event lists a stored checkpoint is built from: events that files hold.
SeedLists == SeqsUpTo({d \in FileEvents : model_validate(d)}, MaxBatch)

\* ------------------------------------------------------------------ state
VARIABLES
    cp,       \* the Checkpoint a caller holds (its DataFrame)
    cpPrev,   \* the receiver of the last Checkpoint operation
    cpArg,    \* the list of events passed to it
    cpOp,     \* the last Checkpoint operation
    cpOut,    \* "none" when it returned, else the exception it raised
    cpSelf,   \* the receiver after the call, and whether the result is new
    cpGot,    \* what the queries on the Checkpoint returned
    bucket,   \* the source bucket: key id -> body, for the keys that exist
    ret,      \* the last S3EventRetriever call: its arguments and outcome
    ckptObj,  \* the object at the checkpoint bucket/key
    inv,      \* the last lambda_handler invocation and its response
    st,       \* the last CheckpointStore call: its arguments and outcome
    val,      \* the last VisitEvent construction: its input and outcome
    hist,     \* what the invocations since the last seeding did with each file
    conc      \* two invocations that may overlap: where each is, what it got

cpVars == <<cp, cpPrev, cpArg, cpOp, cpOut, cpSelf, cpGot>>
retVars == <<bucket, ret>>
storeVars == <<ckptObj, inv, st, val, hist, conc>>
vars ==
    <<cp, cpPrev, cpArg, cpOp, cpOut, cpSelf, cpGot, bucket, ret, ckptObj,
      inv, st, val, hist, conc>>

Idle == [op |-> "idle"]

\* The queries of a Checkpoint.
Queries(df) ==
    [last |-> get_last_processed_timestamp(df), count |-> get_event_count(df),
     empty |-> is_empty(df)]
NotAsked == [last |-> NoneTs, count |-> 0, empty |-> TRUE]

Init ==
    /\ cp = Checkpoint_empty
    /\ cpPrev = Checkpoint_empty
    /\ cpArg = <<>>
    /\ cpOp = "empty"
    /\ cpOut = "none"
    /\ cpSelf = [df |-> Checkpoint_empty, fresh |-> TRUE]
    /\ cpGot = NotAsked
    /\ bucket = <<>>
    /\ ret = Idle
    /\ ckptObj = NoObject
    /\ inv = Idle
    /\ st = Idle
    /\ val = Idle
    /\ hist = NoHistory
    /\ conc = NoneRunning

\* ------------------------------------------------- Checkpoint operations
CallEmpty ==
    /\ cp' = Checkpoint_empty
    /\ cpPrev' = cp
    /\ cpArg' = <<>>
    /\ cpOp' = "empty"
    /\ cpOut' = "none"
    /\ cpSelf' = [df |-> cp, fresh |-> TRUE]
    /\ cpGot' = NotAsked
    /\ UNCHANGED <<retVars, storeVars>>

\* from_events is a class method: it builds a Checkpoint from the list
\* alone, whatever Checkpoint was held before.
CallFromEvents ==
    \E events \in EventLists :
        /\ cpOp = "empty"
        /\ cp' = from_events(events)
        /\ cpPrev' = cp
        /\ cpArg' = events
        /\ cpOp' = "from_events"
        /\ cpOut' = "none"
        /\ cpSelf' = [df |-> cp, fresh |-> TRUE]
        /\ cpGot' = NotAsked
        /\ UNCHANGED <<retVars, storeVars>>

CallAddEvents ==
    \E new_events \in EventLists :
        /\ Len(cp.rows) + Len(new_events) <= MaxRows
        /\ \E r \in add_events(cp, new_events) :
            /\ cp' = r.df
            /\ cpOut' = r.raised
            /\ cpSelf' = [df |-> r.receiver, fresh |-> r.fresh]
        /\ cpPrev' = cp
        /\ cpArg' = new_events
        /\ cpOp' = "add_events"
        /\ cpGot' = NotAsked
        /\ UNCHANGED <<retVars, storeVars>>

\* get_last_processed_timestamp(), get_event_count() and is_empty() on the
\* Checkpoint held.
CallQueries ==
    /\ cpOp # "queries"
    /\ cpGot' = Queries(cp)
    /\ cpOp' = "queries"
    /\ cpPrev' = cp
    /\ cpArg' = <<>>
    /\ cpOut' = "none"
    /\ cpSelf' = [df |-> cp, fresh |-> TRUE]
    /\ UNCHANGED <<cp, retVars, storeVars>>

NextCheckpoint == CallEmpty \/ CallFromEvents \/ CallAddEvents \/ CallQueries

SpecCheckpoint == Init /\ [][NextCheckpoint]_vars

\* -------------------------------------------------- retriever operations
\* Another pipeline writes an event log file; files are written once.  A
\* retriever is built for one call: the next one starts after the write.
PutObject ==
    \E k \in KeyIds \ DOMAIN bucket : \E body \in BodiesOf(k) :
        /\ bucket' = [j \in DOMAIN bucket \cup {k} |->
                          IF j = k THEN body ELSE bucket[j]]
        /\ ret' = Idle
        /\ inv' = Idle
        /\ hist' = IF ArrivesLate(ckptObj, body)
                   THEN [hist EXCEPT !.late = @ \cup {k}] ELSE hist
        /\ UNCHANGED <<cpVars, ckptObj, st, val, conc>>

CallListEventFiles ==
    \E prefix \in Prefixes, listFault \in Faults :
        /\ ret = Idle
        /\ ret' = [op |-> "list_event_files", prefix |-> prefix,
                   out |-> list_event_files(bucket, prefix, listFault)]
        /\ UNCHANGED <<bucket, cpVars, storeVars>>

CallShouldProcessEvent ==
    \E since \in {NoneTs} \cup 1..MaxTs, event \in ValidEvents :
        /\ ret = Idle
        /\ ret' = [op |-> "should_process_event", since |-> since,
                   event |-> event,
                   out |-> should_process_event(since, event)]
        /\ UNCHANGED <<bucket, cpVars, storeVars>>

CallRetrieveAndValidate ==
    \E prefix \in Prefixes, since \in {NoneTs} \cup 1..MaxTs,
       listFault \in Faults, fetchFault \in FetchFaults :
        /\ ret = Idle
        /\ ret' = [op |-> "retrieve_and_validate_events", prefix |-> prefix,
                   since |-> since, listFault |-> listFault,
                   fetchFault |-> fetchFault,
                   out |-> retrieve_and_validate_events(
                               bucket, prefix, since, listFault, fetchFault)]
        /\ UNCHANGED <<bucket, cpVars, storeVars>>

NextRetriever ==
    \/ PutObject
    \/ CallListEventFiles
    \/ CallShouldProcessEvent
    \/ CallRetrieveAndValidate

SpecRetriever == Init /\ [][NextRetriever]_vars

\* ---------------------------------------------------- handler operations
\* A checkpoint is put at the bound location before any file arrives:
\* CheckpointStore.save of a Checkpoint built from events.  The history
\* starts again with it.
SeedCheckpoint ==
    \E events \in SeedLists :
        /\ bucket = <<>>
        /\ ckptObj' = save(ckptObj, from_events(events), "none").obj
        /\ inv' = Idle
        /\ hist' = NoHistory
        /\ UNCHANGED <<cpVars, retVars, st, val, conc>>

CallLambdaHandler ==
    \E event \in HandlerEvents, f \in HandlerFaults :
        /\ inv = Idle
        /\ \E out \in lambda_handler(event, ckptObj, bucket, f) :
            /\ ckptObj' = out.obj
            /\ inv' = [op |-> "lambda_handler", event |-> event, faults |-> f,
                       before |-> ckptObj, response |-> out.response,
                       calls |-> out.calls]
            /\ hist' = [hist EXCEPT !.count =
                           [k \in KeyIds |->
                               IF k \in Contributed(ckptObj, out.obj, out.calls,
                                                    f, bucket)
                               THEN @[k] + 1 ELSE @[k]]]
        /\ UNCHANGED <<cpVars, retVars, st, val, conc>>

NextHandler == PutObject \/ SeedCheckpoint \/ CallLambdaHandler

\* ----------------------------------------------- overlapping invocations
\* Invocation w starts: lambda_handler is entered and reads its parameters.
\* It overlaps the other one when that one has started and not returned.
Enter(w) ==
    \E event \in CompleteEvents :
        /\ conc.pc[w] = "idle"
        /\ conc' = [conc EXCEPT
                       !.pc[w] = "entered",
                       !.event[w] = event,
                       !.found = ckptObj,
                       !.overlapped =
                           @ \/ \E o \in Workers \ {w} : conc.pc[o] = "entered"]
        /\ UNCHANGED <<cpVars, retVars, ckptObj, inv, st, val, hist>>

\* Invocation w runs _update_checkpoint and returns.  The step is atomic
\* with respect to the store because get_checkpoint raises before the
\* first storage call is made.
Complete(w) ==
    /\ conc.pc[w] = "entered"
    /\ \E out \in lambda_handler(conc.event[w], ckptObj, bucket, NoFaults) :
           /\ ckptObj' = out.obj
           /\ conc' = [conc EXCEPT
                          !.pc[w] = "done",
                          !.response[w] = out.response,
                          !.order = Append(@, w)]
    /\ UNCHANGED <<cpVars, retVars, inv, st, val, hist>>

\* The source and the checkpoint are set up before the invocations start.
NoneStarted == \A w \in Workers : conc.pc[w] = "idle"
ArriveBefore == NoneStarted /\ PutObject
SeedBefore == NoneStarted /\ SeedCheckpoint

NextConcurrent ==
    \/ ArriveBefore
    \/ SeedBefore
    \/ \E w \in Workers : Enter(w)
    \/ \E w \in Workers : Complete(w)

SpecConcurrent == Init /\ [][NextConcurrent]_vars

SpecHandler == Init /\ [][NextHandler]_vars

\* ------------------------------------------------- VisitEvent operations
CallVisitEvent ==
    \E raw \in RawInputs :
        /\ val = Idle
        /\ val' = [op |-> "VisitEvent", raw |-> raw, out |-> VisitEvent(raw)]
        /\ UNCHANGED <<cpVars, retVars, ckptObj, inv, st, hist, conc>>

NextModels == CallVisitEvent

SpecModels == Init /\ [][NextModels]_vars

\* ------------------------------------------------------ store operations
\* Something other than the store leaves bytes that are not parquet at the
\* bound location.
PutCorrupt ==
    /\ ckptObj' = Corrupt
    /\ st' = Idle
    /\ UNCHANGED <<cpVars, retVars, inv, val, hist, conc>>

CallExists ==
    \E fault \in HeadFaults :
        /\ st' = [op |-> "exists", fault |-> fault, before |-> ckptObj,
                  arg |-> Checkpoint_empty, out |-> exists(ckptObj, fault)]
        /\ UNCHANGED <<cpVars, retVars, ckptObj, inv, val, hist, conc>>

\* load(); when it follows a save that returned, the record keeps the
\* Checkpoint that save was given.
CallLoad ==
    \E fault \in PolarsFaults :
        /\ st' = [op |-> "load", fault |-> fault, before |-> ckptObj,
                  arg |-> IF st.op = "save" THEN st.arg ELSE Checkpoint_empty,
                  after_save |-> st.op = "save" /\ st.out.raised = "none",
                  out |-> load(ckptObj, fault)]
        /\ UNCHANGED <<cpVars, retVars, ckptObj, inv, val, hist, conc>>

CallSave ==
    \E events \in SeedLists, fault \in PolarsFaults :
        LET out == save(ckptObj, from_events(events), fault)
        IN /\ ckptObj' = out.obj
           /\ st' = [op |-> "save", fault |-> fault, before |-> ckptObj,
                     arg |-> from_events(events), out |-> out]
           /\ UNCHANGED <<cpVars, retVars, inv, val, hist, conc>>

NextStore == PutCorrupt \/ CallExists \/ CallLoad \/ CallSave

SpecStore == Init /\ [][NextStore]_vars

\* ------------------------------------------------------ Checkpoint claims
\* C1: for every Checkpoint C and list E of valid events, C.add_events(E)
\* returns a Checkpoint with C.get_event_count() + len(E) rows that are, as
\* a multiset, the rows of C plus the rows of E.
C1_AddEventsKeepsEveryRow ==
    cpOp = "add_events" =>
        /\ cpOut = "none"
        /\ get_event_count(cp) = get_event_count(cpPrev) + Len(cpArg)
        /\ SameBag(cp.rows, cpPrev.rows \o cpArg)

\* C2: for a Checkpoint obtained through empty(), from_events() or
\* add_events() and any list E, the rows of the Checkpoint add_events(E)
\* returns are in non-decreasing timestamp order.
C2_AddEventsResultSorted ==
    (cpOp = "add_events" /\ cpOut = "none") => IsSorted(cp.rows)

\* C3: from_events(events) holds the given events sorted non-decreasing by
\* timestamp whatever their input order, and from_events([]) is empty.
C3_FromEventsSorted ==
    cpOp = "from_events" =>
        /\ SameBag(cp.rows, cpArg)
        /\ IsSorted(cp.rows)
        /\ (cpArg = <<>> => is_empty(cp))

\* ------------------------------------------------------- retriever claims
\* C4: should_process_event returns True for every event when
\* since_timestamp is None, and otherwise True exactly when the event's
\* timestamp is strictly greater than since_timestamp; retrieval keeps only
\* events that pass it.
C4_ShouldProcessStrictlyAfter ==
    /\ ret.op = "should_process_event" =>
           (ret.out <=> (ret.since = NoneTs \/ ret.event.timestamp > ret.since))
    /\ ret.op = "retrieve_and_validate_events" =>
           \A i \in DOMAIN ret.out.valid_events :
               ret.since = NoneTs \/ ret.out.valid_events[i].timestamp > ret.since

\* An event at the cutoff was offered and excluded.
C4_Witness ==
    /\ ret.op = "should_process_event"
    /\ ret.since # NoneTs
    /\ ret.event.timestamp = ret.since
    /\ ret.out = FALSE

\* What the candidate keys of the last retrieval hold.
Fetched(k) == retrieve_event(bucket, k, FaultAt(ret.fetchFault, k))
FetchFails(k) == Fetched(k).raised # "none"
FetchIncluded(k) ==
    ~FetchFails(k) /\ (ret.since = NoneTs \/ bucket[k].data.timestamp > ret.since)
Candidates == list_event_files(bucket, ret.prefix, "none").files

\* C5: once the candidate keys are listed, retrieve_and_validate_events
\* attempts each of them once, whichever of them fail, and returns the
\* parsed and included events as valid_events and one error entry per failed
\* key; no key is in both.
C5_EveryKeyAttemptedAndClassified ==
    (ret.op = "retrieve_and_validate_events" /\ ret.listFault = "none") =>
        LET good == SelectSeq(Candidates, FetchIncluded)
            bad == SelectSeq(Candidates, FetchFails)
        IN /\ ret.out.raised = "none"
           /\ ret.out.attempted = Candidates
           /\ ret.out.valid_events = [i \in DOMAIN good |-> bucket[good[i]].data]
           /\ [i \in DOMAIN ret.out.validation_errors |->
                  ret.out.validation_errors[i].source_key] = bad

\* C6: retrieve_and_validate_events raises only when the listing fails, and
\* then before any file is fetched; no failure on a single file propagates.
C6_OnlyListingFailureRaises ==
    ret.op = "retrieve_and_validate_events" =>
        /\ (ret.listFault # "none" =>
               ret.out.raised = ret.listFault /\ ret.out.attempted = <<>>)
        /\ (ret.listFault = "none" => ret.out.raised = "none")

\* C7: list_event_files returns every object under the prefix whose key
\* matches the file pattern, and only those, however many objects there are.
C7_ListReturnsEveryMatchingKey ==
    (ret.op = "list_event_files" /\ ret.out.raised = "none") =>
        Range(ret.out.files) =
            {k \in DOMAIN bucket : StartsWith(k, ret.prefix) /\ FilePatternMatches(k)}

\* --------------------------------------------------------- handler claims
\* The candidate files of an invocation that hold a valid event newer than
\* the checkpoint it found.
SinceOf(obj) ==
    IF obj.kind = "parquet" THEN get_last_processed_timestamp(obj.df) ELSE NoneTs
NewValidKeys(obj, prefix) ==
    {k \in DOMAIN bucket :
        /\ StartsWith(k, prefix)
        /\ FilePatternMatches(k)
        /\ bucket[k].kind = "json"
        /\ model_validate(bucket[k].data)
        /\ (SinceOf(obj) = NoneTs \/ bucket[k].data.timestamp > SinceOf(obj))}
NewValidEvents(obj, prefix) ==
    LET keys == Ascending(NewValidKeys(obj, prefix))
    IN [i \in DOMAIN keys |-> bucket[keys[i]].data]
BucketsAccessible(f) == f.load = "none" /\ f.list = "none" /\ f.save = "none"

\* C8: a first run (no checkpoint object yet) with source_bucket,
\* checkpoint_bucket and checkpoint_key present and both buckets accessible
\* returns exactly {"statusCode": 200}, whatever files the source holds.
C8_FirstRunReturns200 ==
    (/\ inv.op = "lambda_handler"
     /\ inv.event \in CompleteEvents
     /\ inv.before = NoObject
     /\ BucketsAccessible(inv.faults))
        => inv.response = Response200

SavesOf(calls) == {i \in DOMAIN calls : calls[i].op = "save"}
FetchedBefore(calls, i) ==
    {calls[j].key : j \in {n \in 1..(i - 1) : calls[n].op = "get_object"}}

C12_MissingParameterIs400 ==
    (/\ inv.op = "lambda_handler"
     /\ \/ inv.event.checkpoint_bucket \in {NoneStr, ""}
        \/ inv.event.checkpoint_key \in {NoneStr, ""}
        \/ inv.event.source_bucket = NoneStr)
        => /\ inv.response.statusCode = 400
           /\ inv.response.error = "ValidationError"
           /\ inv.calls = <<>>
           /\ ckptObj = inv.before

\* An invocation with an empty checkpoint_key was refused while the source
\* held a candidate file.
C12_Witness ==
    /\ inv.op = "lambda_handler"
    /\ inv.event.checkpoint_key = ""
    /\ inv.response.statusCode = 400
    /\ \E k \in DOMAIN bucket : FilePatternMatches(k)

\* C13: a failing checkpoint load, listing or checkpoint save ends the
\* invocation with statusCode 500; after a failing load or listing no save
\* is attempted; with no such failure the response is {"statusCode": 200}
\* whatever happens on single event files.
C13_FatalFailuresAre500FileFailuresAre200 ==
    (inv.op = "lambda_handler" /\ inv.event \in CompleteEvents) =>
        /\ (inv.faults.load # "none" \/ inv.faults.list # "none")
               => (inv.response.statusCode = 500 /\ SavesOf(inv.calls) = {})
        /\ (inv.faults.save # "none" /\ SavesOf(inv.calls) # {})
               => inv.response.statusCode = 500
        /\ BucketsAccessible(inv.faults) => inv.response = Response200

\* ----------------------------------------------------------- store claims
\* C14: exists() is True exactly when an object is at the bound location:
\* a missing object yields False, and every other access failure raises
\* CheckpointError.
C14_ExistsIffObjectPresent ==
    st.op = "exists" =>
        /\ (st.fault = "none" =>
               /\ st.out.raised = "none"
               /\ st.out.result <=> (st.before.kind # "absent"))
        /\ (st.fault # "none" => st.out.raised = "CheckpointError")

\* C15: load() returns None when no object is at the bound location, a
\* Checkpoint with the stored rows when a parquet file is, and raises
\* CheckpointError when the object cannot be parsed or the storage access
\* fails.
C15_LoadNoneCheckpointOrCheckpointError ==
    st.op = "load" =>
        /\ (st.fault = "none" /\ st.before.kind = "absent") =>
               (st.out.raised = "none" /\ ~st.out.found)
        /\ (st.fault = "none" /\ st.before.kind = "parquet") =>
               /\ st.out.raised = "none"
               /\ st.out.found
               /\ st.out.checkpoint.rows = st.before.df.rows
        /\ (st.fault = "none" /\ st.before.kind = "corrupt") =>
               st.out.raised = "CheckpointError"
        /\ (st.fault # "none" => st.out.raised = "CheckpointError")

\* C16: save(checkpoint) returns s3://<bucket>/<key> only when the whole
\* checkpoint, zero rows included, is at the bound location; when the write
\* fails it raises, and the object is then what it was before.
C16_SaveReturnsUriOnlyAfterCompleteWrite ==
    st.op = "save" =>
        /\ (st.out.raised = "none" =>
               /\ st.out.result = "s3://ckpt/events.parquet"
               /\ ckptObj = Parquet(st.arg))
        /\ (st.fault # "none" => st.out.raised # "none")
        /\ (st.out.raised # "none" =>
               (st.out.result = NoneStr /\ ckptObj = st.before))

\* A save over a stored checkpoint failed, raised, and left the stored
\* checkpoint as it was.
C16_Witness ==
    /\ st.op = "save"
    /\ st.fault # "none"
    /\ st.before.kind = "parquet"
    /\ st.arg # st.before.df
    /\ st.out.raised # "none"
    /\ ckptObj = st.before

\* C17: whatever makes load() or save() fail, the caller gets a
\* CheckpointError and no other exception type.
C17_StoreRaisesOnlyCheckpointError ==
    st.op \in {"load", "save"} => st.out.raised \in {"none", "CheckpointError"}

C19_LastTimestampIsMaximum ==
    cpOp = "queries" =>
        /\ (cpGot.last = NoneTs <=> Len(cp.rows) = 0)
        /\ (Len(cp.rows) > 0 =>
               /\ \E i \in DOMAIN cp.rows : cp.rows[i].timestamp = cpGot.last
               /\ \A i \in DOMAIN cp.rows : cp.rows[i].timestamp <= cpGot.last)
        /\ cpGot.count = Len(cp.rows)
        /\ (cpGot.empty <=> cpGot.count = 0)

\* The latest event of a Checkpoint is not its last row, and the query
\* returned its timestamp.
C19_Witness ==
    /\ cpOp = "queries"
    /\ Len(cp.rows) >= 2
    /\ cp.rows[Len(cp.rows)].timestamp < cpGot.last

\* The rows of a frame that carry timestamp t, in the order they are held.
TiesOf(rows, t) ==
    LET At(r) == r.timestamp = t
    IN SelectSeq(rows, At)

\* C20: rows with equal timestamps stay in insertion order: after
\* add_events the rows of the prior checkpoint precede the new rows of the
\* same timestamp, each group in the order it had, and from_events keeps
\* the order of its list among equal timestamps.
C20_TiesKeepInsertionOrder ==
    /\ (cpOp = "add_events" /\ cpOut = "none") =>
           \A t \in 1..MaxTs :
               TiesOf(cp.rows, t) = TiesOf(cpPrev.rows \o cpArg, t)
    /\ cpOp = "from_events" =>
           \A t \in 1..MaxTs : TiesOf(cp.rows, t) = TiesOf(cpArg, t)

C22_ModuleIffForm ==
    (val.op = "VisitEvent" /\ FieldErrors(val.raw) = {}) =>
        (val.out.ok <=>
            ((val.out.event.datatype = "form")
                <=> (val.out.event.module # NoneStr)))

\* A form event without module, every field of it valid, was rejected.
C22_Witness ==
    /\ val.op = "VisitEvent"
    /\ FieldErrors(val.raw) = {}
    /\ val.raw.datatype = "form"
    /\ val.raw.module = NoneStr
    /\ ~val.out.ok

\* The field constraints of the event record, read on the values
\* as_checked makes of the str fields of an input.
AsGiven(s) == s
\* What lies between the first and the last character of s that is not
\* whitespace.
Stripped(s) ==
    LET solid == {i \in DOMAIN s : s[i] \notin Whitespace}
    IN IF solid = {} THEN <<>>
       ELSE SubSeq(s, CHOOSE i \in solid : \A j \in solid : i <= j,
                   CHOOSE i \in solid : \A j \in solid : j <= i)
Violations(raw, as_checked(_)) ==
    (RequiredFields \cap raw.missing)
    \cup raw.extra
    \cup {f \in {"action"} \ raw.missing : raw.action \notin VisitEventType}
    \cup {f \in {"datatype"} \ raw.missing :
            raw.datatype \notin DatatypeNameType}
    \cup {f \in {"module"} \ raw.missing :
            raw.module \notin ModuleName \cup {NoneStr}}
    \cup {f \in {"ptid"} \ raw.missing :
            LET p == as_checked(raw.ptid)
            IN \/ p = <<>>
               \/ Len(p) > PtidMaxLength
               \/ \E i \in DOMAIN p : p[i] \in Whitespace}
    \cup {f \in {"visit_date"} \ raw.missing :
            ~VisitDatePatternMatches(as_checked(raw.visit_date))}
CrossRuleHolds(raw) ==
    LET module == IF "module" \in raw.missing THEN NoneStr ELSE raw.module
    IN (raw.datatype = "form") <=> (module # NoneStr)

\* C23 as stated: the constraints are read on the input as given, so a
\* ptid with whitespace anywhere, or longer than ten characters, is
\* rejected.  Violated: surrounding whitespace is stripped first.
C23_ConstraintsOnGivenInput ==
    val.op = "VisitEvent" =>
        /\ (Violations(val.raw, AsGiven) = {} /\ CrossRuleHolds(val.raw))
               => val.out.ok
        /\ Cardinality(Violations(val.raw, AsGiven)) = 1
               => (~val.out.ok /\ Violations(val.raw, AsGiven) \subseteq val.out.errors)

\* C23, amended: the constraints of ptid and visit_date are read on the
\* value after its leading and trailing whitespace is stripped.  An input
\* meeting every constraint is accepted and the record holds the stripped
\* values; an input violating exactly one is rejected with an error that
\* names the field.
C23_ConstraintsOnStrippedInput ==
    val.op = "VisitEvent" =>
        /\ (Violations(val.raw, Stripped) = {} /\ CrossRuleHolds(val.raw))
               => /\ val.out.ok
                  /\ val.out.event.ptid = Stripped(val.raw.ptid)
                  /\ val.out.event.visit_date = Stripped(val.raw.visit_date)
        /\ Cardinality(Violations(val.raw, Stripped)) = 1
               => (~val.out.ok /\ Violations(val.raw, Stripped) \subseteq val.out.errors)

\* A ptid given with surrounding whitespace was accepted and stored
\* stripped.
C23_Witness ==
    /\ val.op = "VisitEvent"
    /\ val.out.ok
    /\ val.raw.ptid # Stripped(val.raw.ptid)
    /\ val.out.event.ptid = Stripped(val.raw.ptid)

\* C24: study, project_label, center_label and gear_name are non-empty:
\* an event in which one of them is empty, or only whitespace, is rejected.
\* Violated: the four fields carry no length constraint.
C24_EmptyLabelRejected ==
    val.op = "VisitEvent" =>
        \A f \in {"study", "project_label", "center_label", "gear_name"} :
            (f \notin val.raw.missing /\ Stripped(val.raw[f]) = <<>>)
                => ~val.out.ok

\* ------------------------------------------- checkpoint claims, continued
\* C25: every Checkpoint, from empty(), from_events() or add_events(), with
\* or without rows, has the column types of the fixed schema, also when
\* every event of a batch has None for module; and merging such a batch
\* into an existing checkpoint succeeds.  Violated: a frame built from
\* events carries the dtypes polars infers from the values.
C25_SchemaIsFixed ==
    /\ cp.schema = create_checkpoint_dataframe.schema
    /\ (/\ cpOp = "add_events"
        /\ \A i \in DOMAIN cpArg : cpArg[i].module = NoneStr)
           => cpOut = "none"

NotNewerKeys(obj) ==
    {k \in DOMAIN bucket :
        /\ bucket[k].kind = "json"
        /\ model_validate(bucket[k].data)
        /\ SinceOf(obj) # NoneTs
        /\ bucket[k].data.timestamp <= SinceOf(obj)}

====
